---- MODULE Spec2Model ----
\* Model of spitfire/chemistry/library.py: the Dimension and Library classes.
\* numpy arrays are records [shape, data] with data in row-major order; floats
\* are modelled by integers.  Array buffers live in a heap indexed by location,
\* so that a copy (np.copy) and a reference to the same buffer are different
\* things.  Python dicts are sequences of [key, val] entries in insertion order.
EXTENDS Integers, Sequences, FiniteSets, TLC

\* ---------------------------------------------------------------- bounds
\* longest value array of a Dimension the caller builds
MaxPts == 2
\* most Dimensions the caller builds, and most arguments of Library(...)
MaxDims == 2
\* most in-place writes the caller makes into objects it holds, and most
\* times it goes on with a Library an operation returned
MaxMutations == 1

\* ---------------------------------------------------------------- inputs
\* names the caller may give a Dimension, and one that is no identifier.  Names
\* are interchangeable, so the i-th Dimension built takes one of the first i.
NameList == <<"x", "y", "z", "w">>
BadName == "x-y"
DimNames(i) == {NameList[j] : j \in 1..i} \cup {BadName}
Identifiers == {"x", "y", "z", "w", "a", "b"}
PropNames == {"a", "b"}
AttrKeys == {"note"}
AttrVals == {"v1"}
\* value written by an in-place mutation, different from every input value
MutValues == {9}
\* first cell of the property arrays the caller builds
FillBases == {10}
\* property names for the text dump: one that is also a dimension name, and
\* two that differ by a space against an underscore
TextPropNames == {"x", "a b", "a_b"}
\* first cell of the array the caller stores under each of them
TextBase(p) == CASE p = "x" -> 10 [] p = "a b" -> 20 [] OTHER -> 30
\* the ravel_order arguments and the answers to the confirmation prompt
RavelOrders == {"C", "F"}
Answers == {"y", "n"}
\* the array a caller tries to assign to a grid
CallerGrid == [shape |-> <<1>>, data |-> <<7>>]

\* ---------------------------------------------------------------- arrays
NoArr == [shape |-> <<>>, data |-> <<>>]

RECURSIVE Prod(_)
Prod(s) == IF s = <<>> THEN 1 ELSE Head(s) * Prod(Tail(s))

\* np.ndarray.size
Size(a) == Len(a.data)

Ramp(n, base) == [i \in 1..n |-> base + i - 1]

\* the caller's array of a given shape, cells base, base+1, ... in C order
Filled(shape, base) == [shape |-> shape, data |-> Ramp(Prod(shape), base)]

RECURSIVE SeqMin(_)
SeqMin(s) ==
    IF Len(s) = 1 THEN s[1]
    ELSE LET m == SeqMin(Tail(s)) IN IF s[1] < m THEN s[1] ELSE m

RECURSIVE SeqMax(_)
SeqMax(s) ==
    IF Len(s) = 1 THEN s[1]
    ELSE LET m == SeqMax(Tail(s)) IN IF s[1] > m THEN s[1] ELSE m

\* np.unique(a).size
UniqueSize(a) == Cardinality({a.data[i] : i \in 1..Len(a.data)})

\* ---------------------------------------------------------------- dicts
RECURSIVE DictIndex(_, _)
DictIndex(d, k) ==
    IF d = <<>> THEN 0
    ELSE IF d[Len(d)].key = k /\ DictIndex(SubSeq(d, 1, Len(d) - 1), k) = 0
         THEN Len(d)
         ELSE DictIndex(SubSeq(d, 1, Len(d) - 1), k)

DictHas(d, k) == DictIndex(d, k) # 0

DictGet(d, k) == d[DictIndex(d, k)].val

\* d[k] = v: an existing key keeps its place, a new key goes last
DictSet(d, k, v) ==
    IF DictHas(d, k)
    THEN [d EXCEPT ![DictIndex(d, k)] = [key |-> k, val |-> v]]
    ELSE Append(d, [key |-> k, val |-> v])

\* d.pop(k) on a present key
DictPop(d, k) ==
    LET i == DictIndex(d, k)
    IN  SubSeq(d, 1, i - 1) \o SubSeq(d, i + 1, Len(d))

DictKeys(d) == [i \in 1..Len(d) |-> d[i].key]

\* ---------------------------------------------------------------- heap
Loc(kind, key) == [k |-> kind, n |-> key]

IdxName(i) == <<"1", "2", "3", "4", "5", "6">>[i]

\* buffers of the given kinds are dropped (their last reference is gone)
Release(h, kinds) == [l \in DOMAIN h |-> IF l.k \in kinds THEN NoArr ELSE h[l]]

\* ---------------------------------------------------------------- Dimension
NoDim ==
    [name |-> "", values |-> Loc("none", ""), min |-> 0, max |-> 0, npts |-> 0,
     structured |-> TRUE, has_grid |-> FALSE, grid |-> NoArr,
     library_owned |-> FALSE]

\* self._values = values: the caller's buffer is kept, not copied
Dimension_alias_values(h, src, dst) == [heap |-> h, values |-> src]

\* self._values = np.copy(values): the new object's buffer is dst
Dimension_copy_values(h, src, dst) ==
    [heap |-> [h EXCEPT ![dst] = h[src]], values |-> dst]

\* Dimension(name, values, structured, _library_owned); values is the buffer
\* at src.  An exception leaves no object behind.
Dimension__init__(h, name, src, structured, owned, dst) ==
    LET fail(e) == [err |-> e, obj |-> NoDim, heap |-> h]
        init(cp, v) ==
            IF Size(v) = 0 THEN fail("ValueError")
            ELSE IF name \notin Identifiers THEN fail("ValueError")
            ELSE IF Len(cp.heap[cp.values].shape) # 1 THEN fail("ValueError")
            ELSE IF structured /\ Size(cp.heap[cp.values]) # UniqueSize(cp.heap[cp.values])
                 THEN fail("ValueError")
            ELSE [err  |-> "none",
                  obj  |-> [name |-> name, values |-> cp.values,
                            min |-> SeqMin(v.data), max |-> SeqMax(v.data),
                            npts |-> Size(v), structured |-> structured,
                            has_grid |-> FALSE, grid |-> NoArr,
                            library_owned |-> owned],
                  heap |-> cp.heap]
    IN  init(Dimension_copy_values(h, src, dst), h[src])

\* Dimension.grid (read)
Dimension_grid(h, d) == IF d.has_grid THEN d.grid ELSE h[d.values]

\* Dimension.grid = g
Dimension_grid_setter(d, g) ==
    IF d.library_owned
    THEN [err |-> "none", obj |-> [d EXCEPT !.has_grid = TRUE, !.grid = g]]
    ELSE [err |-> "ValueError", obj |-> d]

\* ---------------------------------------------------------------- meshgrid
\* shape of the arrays of np.meshgrid(...) with its default indexing='xy'
MeshGridShapeXY(lens) ==
    IF Len(lens) >= 2
    THEN <<lens[2], lens[1]>> \o SubSeq(lens, 3, Len(lens))
    ELSE lens

\* shape of every array np.meshgrid(..., indexing='ij') returns
MeshGridShape(lens) == lens

\* the i-th array of np.meshgrid(*vals, indexing='ij'): the cell at
\* (j1, ..., jn) holds vals[i][ji]
MeshGrid(vals, i) ==
    LET lens   == [k \in 1..Len(vals) |-> Len(vals[k])]
        stride == Prod(SubSeq(lens, i + 1, Len(lens)))
    IN  [shape |-> MeshGridShape(lens),
         data  |-> [f \in 1..Prod(lens) |->
                        vals[i][(((f - 1) \div stride) % lens[i]) + 1]]]

\* ---------------------------------------------------------------- Library
LibRegion == [dim |-> "ldim", prop |-> "lprop"]
ResRegion == [dim |-> "rdim", prop |-> "rprop"]

NoLib ==
    [live |-> FALSE, region |-> LibRegion, dims |-> <<>>, props |-> <<>>,
     dims_ordering |-> <<>>, structured |-> TRUE, has_grid_shape |-> FALSE,
     grid_shape |-> <<>>, accessors |-> {}, extra_attributes |-> <<>>]

DimAttrs == {"_name", "_values", "_min", "_max", "_npts", "_structured", "_grid"}

\* self._dims = {d.name: Dimension(d.name, d.values, d.structured, True) ...}
RECURSIVE Library_build_dims(_, _, _, _)
Library_build_dims(h, dimensions, region, acc) ==
    IF dimensions = <<>> THEN [err |-> "none", dims |-> acc, heap |-> h]
    ELSE LET d == Head(dimensions)
             add(r) ==
                 IF r.err # "none" THEN [err |-> r.err, dims |-> acc, heap |-> h]
                 ELSE Library_build_dims(r.heap, Tail(dimensions), region,
                                         DictSet(acc, d.name, r.obj))
         IN  add(Dimension__init__(h, d.name, d.values, d.structured, TRUE,
                                   Loc(region.dim, d.name)))

\* for i, d in enumerate(self._dims): self._dims[d].grid = grid[i]
RECURSIVE Library_bind_grids(_, _, _)
Library_bind_grids(dims, vals, i) ==
    IF i > Len(dims) THEN [err |-> "none", dims |-> dims]
    ELSE LET bind(r) ==
                 IF r.err # "none" THEN [err |-> r.err, dims |-> dims]
                 ELSE Library_bind_grids([dims EXCEPT ![i].val = r.obj], vals, i + 1)
         IN  bind(Dimension_grid_setter(dims[i].val, MeshGrid(vals, i)))

\* the attributes set per dimension: lib.<name> and lib.<name><attribute>
Library_accessors(dims) ==
    {[dim |-> dims[i].key, attr |-> a] : i \in 1..Len(dims), a \in DimAttrs \cup {""}}

\* next(self._dims.keys()): dict_keys is not an iterator
Library_first_unstructured(dims) == [err |-> "TypeError", obj |-> NoDim]

\* Library(*dimensions), its buffers in the given region
Library__init__(h, dimensions, region) ==
    LET fail(e) == [err |-> e, lib |-> NoLib, heap |-> h]
        base(dims, alls) ==
            [live |-> TRUE, region |-> region, dims |-> dims, props |-> <<>>,
             dims_ordering |-> [i \in 1..Len(dimensions) |-> dimensions[i].name],
             structured |-> alls, has_grid_shape |-> FALSE, grid_shape |-> <<>>,
             accessors |-> {}, extra_attributes |-> <<>>]
        structured(b, new, vals) ==
            LET bound(g) ==
                    IF g.err # "none" THEN fail(g.err)
                    ELSE [err  |-> "none",
                          lib  |-> [new EXCEPT !.dims = g.dims,
                                               !.has_grid_shape = TRUE,
                                               !.grid_shape = MeshGrid(vals, 1).shape,
                                               !.accessors = Library_accessors(g.dims)],
                          heap |-> b.heap]
            IN  bound(Library_bind_grids(b.dims, vals, 1))
        unstructured(b, new, dim0) ==
            IF dim0.err # "none" THEN fail(dim0.err)
            ELSE LET gs == Dimension_grid(b.heap, dim0.obj).shape
                 IN  IF \E i \in 1..Len(b.dims) :
                            Dimension_grid(b.heap, b.dims[i].val).shape # gs
                     THEN fail("ValueError")
                     ELSE IF \E i \in 1..Len(b.dims) :
                            Len(Dimension_grid(b.heap, b.dims[i].val).shape) # 1
                     THEN fail("ValueError")
                     ELSE [err  |-> "none",
                           lib  |-> [new EXCEPT !.has_grid_shape = TRUE,
                                                !.grid_shape = gs,
                                                !.accessors = Library_accessors(b.dims)],
                           heap |-> b.heap]
        built(b) ==
            LET checked(alls, allu) ==
                    IF ~alls /\ ~allu THEN fail("ValueError")
                    ELSE IF Len(dimensions) = 0
                    THEN [err |-> "none", lib |-> base(b.dims, alls), heap |-> b.heap]
                    ELSE IF alls
                    THEN structured(b, base(b.dims, alls),
                                    [i \in 1..Len(b.dims) |->
                                        b.heap[b.dims[i].val.values].data])
                    ELSE unstructured(b, base(b.dims, alls),
                                      Library_first_unstructured(b.dims))
            IN  IF b.err # "none" THEN fail(b.err)
                ELSE checked(\A i \in 1..Len(b.dims) : b.dims[i].val.structured,
                             \A i \in 1..Len(b.dims) : ~b.dims[i].val.structured)
    IN  built(Library_build_dims(h, dimensions, region, <<>>))

\* Library.dims: the Dimension objects in construction order
Library_dims(lib) ==
    [i \in 1..Len(lib.dims_ordering) |-> DictGet(lib.dims, lib.dims_ordering[i])]

\* Library.shape of a Library with at least one dimension
Library_shape(h, lib) == Dimension_grid(h, Library_dims(lib)[1]).shape

\* Library.props
Library_props(lib) == DictKeys(lib.props)

\* lib[quantity] = values with the store done before the shape check
Library__setitem__store_first(h, lib, quantity, src) ==
    LET dst == Loc(lib.region.prop, quantity)
    IN  IF ~lib.has_grid_shape THEN [err |-> "AttributeError", lib |-> lib, heap |-> h]
        ELSE [err  |-> IF h[src].shape # lib.grid_shape THEN "ValueError" ELSE "none",
              lib  |-> [lib EXCEPT !.props = DictSet(lib.props, quantity, dst)],
              heap |-> [h EXCEPT ![dst] = h[src]]]

\* lib[quantity] = values, values the buffer at src; np.copy(values) is stored
Library__setitem__(h, lib, quantity, src) ==
    IF ~lib.has_grid_shape THEN [err |-> "AttributeError", lib |-> lib, heap |-> h]
    ELSE IF h[src].shape # lib.grid_shape
    THEN [err |-> "ValueError", lib |-> lib, heap |-> h]
    ELSE LET dst == Loc(lib.region.prop, quantity)
         IN  [err  |-> "none",
              lib  |-> [lib EXCEPT !.props = DictSet(lib.props, quantity, dst)],
              heap |-> [h EXCEPT ![dst] = h[src]]]

\* lib[name]: the stored array itself
Library_get_property(lib, name) ==
    IF DictHas(lib.props, name)
    THEN [err |-> "none", loc |-> DictGet(lib.props, name)]
    ELSE [err |-> "KeyError", loc |-> Loc("none", "")]

\* ---------------------------------------------------------------- indexing
\* One component of an index expression: an integer i (start = i) or
\* slice(start, stop, step); stop = -1 stands for None.
IntIdx(i) == [kind |-> "int", start |-> i, stop |-> 0, step |-> 1]
SliceIdx(a, b, c) == [kind |-> "slice", start |-> a, stop |-> b, step |-> c]

RECURSIVE Progression(_, _, _)
Progression(from, to, step) ==
    IF from >= to THEN <<>> ELSE <<from>> \o Progression(from + step, to, step)

\* the 0-based positions component c selects on an axis of length n
AxisIndices(c, n) ==
    IF c.kind = "int" THEN <<c.start>>
    ELSE Progression(c.start, IF c.stop < 0 \/ c.stop > n THEN n ELSE c.stop, c.step)

\* the cells of a C-ordered block at the cartesian product of idx, in C order
RECURSIVE Take(_, _, _)
RECURSIVE TakeRows(_, _, _, _)
Take(shape, data, idx) ==
    IF shape = <<>> THEN data ELSE TakeRows(shape, data, idx[1], Tail(idx))
TakeRows(shape, data, rows, rest) ==
    IF rows = <<>> THEN <<>>
    ELSE LET bs == Prod(Tail(shape))
         IN  Take(Tail(shape), SubSeq(data, Head(rows) * bs + 1, (Head(rows) + 1) * bs), rest)
             \o TakeRows(shape, data, Tail(rows), rest)

RECURSIVE KeptLens(_, _)
KeptLens(comps, idx) ==
    IF idx = <<>> THEN <<>>
    ELSE (IF comps # <<>> /\ Head(comps).kind = "int" THEN <<>> ELSE <<Len(Head(idx))>>)
         \o KeptLens(IF comps = <<>> THEN <<>> ELSE Tail(comps), Tail(idx))

\* a[comps] for a tuple of integers and slices (basic indexing)
ArrayIndex(a, comps) ==
    LET nd == Len(a.shape)
        select(idx) == [shape |-> KeptLens(comps, idx),
                        data  |-> Take(a.shape, a.data, idx)]
    IN  IF Len(comps) > nd THEN [err |-> "IndexError", arr |-> NoArr]
        ELSE IF \E k \in 1..Len(comps) :
                   comps[k].kind = "int" /\ comps[k].start >= a.shape[k]
        THEN [err |-> "IndexError", arr |-> NoArr]
        ELSE [err |-> "none",
              arr |-> select([k \in 1..nd |->
                                IF k <= Len(comps) THEN AxisIndices(comps[k], a.shape[k])
                                ELSE Progression(0, a.shape[k], 1)])]

\* a.reshape(shape)
Reshape(a, shape) ==
    IF Prod(shape) # Size(a) THEN [err |-> "ValueError", arr |-> NoArr]
    ELSE [err |-> "none", arr |-> [shape |-> shape, data |-> a.data]]

\* np.squeeze(a)
RECURSIVE DropOnes(_)
DropOnes(s) ==
    IF s = <<>> THEN <<>>
    ELSE (IF Head(s) = 1 THEN <<>> ELSE <<Head(s)>>) \o DropOnes(Tail(s))

Squeeze(a) == [shape |-> DropOnes(a.shape), data |-> a.data]

\* d.values[s], wrapped into a one-element array when it is a float
Library_sliced_values(v, s) ==
    LET wrap(r) ==
            IF r.err # "none" THEN r
            ELSE IF r.arr.shape = <<>>
            THEN [err |-> "none", arr |-> [shape |-> <<1>>, data |-> r.arr.data]]
            ELSE r
    IN  wrap(ArrayIndex(v, <<s>>))

\* ---------------------------------------------------------------- derived libraries
\* The array handed to Dimension(...) for dimension d, number i, by each
\* operation that builds a new Library from an old one: [err, heap, loc].
Library_copy_dim_values(h, d, i) == [err |-> "none", heap |-> h, loc |-> d.values]

Library_deepcopy_dim_values(h, d, i) ==
    LET t == Loc("tmp", IdxName(i))
    IN  [err |-> "none", heap |-> [h EXCEPT ![t] = h[d.values]], loc |-> t]

Library_slice_dim_values(h, d, i, s) ==
    LET t == Loc("tmp", IdxName(i))
        keep(r) ==
            IF r.err # "none" THEN [err |-> r.err, heap |-> h, loc |-> t]
            ELSE [err |-> "none", heap |-> [h EXCEPT ![t] = r.arr], loc |-> t]
    IN  keep(Library_sliced_values(h[d.values], s))

\* new_dimensions of __copy__, __deepcopy__, squeeze and __getitem__
RECURSIVE Library_new_dimensions(_, _, _, _, _, _)
Library_new_dimensions(h, dims, mode, comps, i, acc) ==
    IF i > Len(dims) THEN [err |-> "none", dims |-> acc, heap |-> h]
    ELSE IF mode = "squeeze" /\ ~(Size(h[dims[i].values]) > 1)
    THEN Library_new_dimensions(h, dims, mode, comps, i + 1, acc)
    ELSE LET d == dims[i]
             add(r) ==
                 IF r.err # "none" THEN [err |-> r.err, dims |-> acc, heap |-> h]
                 ELSE Library_new_dimensions(r.heap, dims, mode, comps, i + 1,
                                             Append(acc, r.obj))
             wrap(v) ==
                 IF v.err # "none" THEN [err |-> v.err, dims |-> acc, heap |-> h]
                 ELSE add(Dimension__init__(v.heap, d.name, v.loc, d.structured, FALSE,
                                            Loc("fdim", IdxName(Len(acc) + 1))))
         IN  wrap(CASE mode = "deepcopy" -> Library_deepcopy_dim_values(h, d, i)
                    [] mode = "slice" -> Library_slice_dim_values(h, d, i, comps[i])
                    [] OTHER -> Library_copy_dim_values(h, d, i))

\* The array assigned to new_library[p] by each operation: [err, heap, loc].
Library_copy_prop(h, lib, p) ==
    [err |-> "none", heap |-> h, loc |-> DictGet(lib.props, p)]

Library_deepcopy_prop(h, lib, p) ==
    LET t == Loc("tmp", p)
    IN  [err |-> "none", heap |-> [h EXCEPT ![t] = h[DictGet(lib.props, p)]], loc |-> t]

Library_squeeze_prop(h, lib, p) ==
    LET t == Loc("tmp", p)
    IN  [err |-> "none", heap |-> [h EXCEPT ![t] = Squeeze(h[DictGet(lib.props, p)])],
         loc |-> t]

Library_slice_prop(h, lib, new, p, comps) ==
    LET t == Loc("tmp", p)
        reshaped(r) ==
            IF r.err # "none" THEN [err |-> r.err, heap |-> h, loc |-> t]
            ELSE [err |-> "none", heap |-> [h EXCEPT ![t] = r.arr], loc |-> t]
        sliced(a) ==
            IF a.err # "none" THEN [err |-> a.err, heap |-> h, loc |-> t]
            ELSE reshaped(Reshape(a.arr, Library_shape(h, new)))
    IN  sliced(ArrayIndex(h[DictGet(lib.props, p)], comps))

\* for p in self.props: new_library[p] = ...
RECURSIVE Library_transfer_props(_, _, _, _, _, _)
Library_transfer_props(h, lib, new, names, mode, comps) ==
    IF names = <<>> THEN [err |-> "none", lib |-> new, heap |-> h]
    ELSE LET p == Head(names)
             stored(r) ==
                 IF r.err # "none" THEN [err |-> r.err, lib |-> NoLib, heap |-> h]
                 ELSE Library_transfer_props(r.heap, lib, r.lib, Tail(names), mode, comps)
             assign(v) ==
                 IF v.err # "none" THEN [err |-> v.err, lib |-> NoLib, heap |-> h]
                 ELSE stored(Library__setitem__(v.heap, new, p, v.loc))
         IN  assign(CASE mode = "deepcopy" -> Library_deepcopy_prop(h, lib, p)
                      [] mode = "squeeze" -> Library_squeeze_prop(h, lib, p)
                      [] mode = "slice" -> Library_slice_prop(h, lib, new, p, comps)
                      [] OTHER -> Library_copy_prop(h, lib, p))

\* new_library = Library(*new_dimensions), then the properties
Library_rebuild(h, lib, mode, comps) ==
    LET fill(nl) ==
            IF nl.err # "none" THEN [err |-> nl.err, lib |-> NoLib, heap |-> h]
            ELSE Library_transfer_props(nl.heap, lib, nl.lib, Library_props(lib), mode,
                                        comps)
        build(nd) ==
            IF nd.err # "none" THEN [err |-> nd.err, lib |-> NoLib, heap |-> h]
            ELSE fill(Library__init__(nd.heap, nd.dims, ResRegion))
    IN  build(Library_new_dimensions(h, Library_dims(lib), mode, comps, 1, <<>>))

Library__copy__(h, lib) == Library_rebuild(h, lib, "copy", <<>>)

Library__deepcopy__(h, lib) == Library_rebuild(h, lib, "deepcopy", <<>>)

\* lib[arg] for an arg that is no string: form "single" is a bare integer or
\* slice, form "tuple" a tuple of them
Library__getitem__(h, lib, form, comps) ==
    LET fail(e) == [err |-> e, lib |-> NoLib, heap |-> h]
    IN  IF Len(lib.dims_ordering) = 0 THEN fail("IndexError")
        ELSE IF ~Library_dims(lib)[1].structured THEN fail("LibraryIndexError")
        ELSE IF form = "single" /\ comps[1].kind = "int" THEN fail("TypeError")
        ELSE IF Len(comps) # Len(Library_dims(lib)) THEN fail("LibraryIndexError")
        ELSE Library_rebuild(h, lib, "slice", comps)

\* ---------------------------------------------------------------- squeeze
\* what an operation returns: nothing, a Library, or the dict of scalars
NoRes ==
    [kind |-> "none", origin |-> "", lib |-> NoLib, dimensions |-> <<>>,
     properties |-> <<>>]

LibRes(l) == [NoRes EXCEPT !.kind = "library", !.lib = l]

\* {p: np.squeeze(library[p]) for p in library.props}
RECURSIVE Library_squeezed_props(_, _, _)
Library_squeezed_props(h, props, acc) ==
    IF props = <<>> THEN acc
    ELSE Library_squeezed_props(h, Tail(props),
                                DictSet(acc, Head(props).key, Squeeze(h[Head(props).val])))

\* {d.name: np.squeeze(d.values) for d in library.dims}
RECURSIVE Library_squeezed_dims(_, _, _)
Library_squeezed_dims(h, dims, acc) ==
    IF dims = <<>> THEN acc
    ELSE Library_squeezed_dims(h, Tail(dims),
                               DictSet(acc, Head(dims).name, Squeeze(h[Head(dims).values])))

\* the dict Library.squeeze returns when no dimension is left
Library_squeeze_dict(h, lib) ==
    [NoRes EXCEPT !.kind = "dict",
                  !.dimensions = Library_squeezed_props(h, lib.props, <<>>),
                  !.properties = Library_squeezed_dims(h, Library_dims(lib), <<>>)]

\* Library.squeeze(library): [err, res, heap]
Library_squeeze(h, lib) ==
    LET rebuilt(nl) ==
            IF nl.err # "none" THEN [err |-> nl.err, res |-> NoRes, heap |-> h]
            ELSE [err |-> "none", res |-> LibRes(nl.lib), heap |-> nl.heap]
        squeezed(nd) ==
            IF nd.err # "none" THEN [err |-> nd.err, res |-> NoRes, heap |-> h]
            ELSE IF nd.dims = <<>>
            THEN [err |-> "none", res |-> Library_squeeze_dict(h, lib), heap |-> h]
            ELSE rebuilt(Library_rebuild(h, lib, "squeeze", <<>>))
    IN  squeezed(Library_new_dimensions(h, Library_dims(lib), "squeeze", <<>>, 1, <<>>))

\* ---------------------------------------------------------------- pickle
\* Library.__getstate__: a dict of references into the Library
Library__getstate__(lib) ==
    [dimensions |-> [i \in 1..Len(lib.dims) |->
                        [key |-> lib.dims[i].key,
                         val |-> [name |-> lib.dims[i].val.name,
                                  values |-> lib.dims[i].val.values,
                                  structured |-> lib.dims[i].val.structured]]],
     dim_ordering |-> lib.dims_ordering,
     properties |-> lib.props,
     has_extra_attributes |-> TRUE,
     extra_attributes |-> lib.extra_attributes]

\* pickle.dump of the state: every referenced array is written out by value
Pickle(h, state) ==
    [state EXCEPT
       !.dimensions = [i \in 1..Len(state.dimensions) |->
                         [state.dimensions[i] EXCEPT !.val.values = h[@]]],
       !.properties = [i \in 1..Len(state.properties) |->
                         [state.properties[i] EXCEPT !.val = h[@]]]]

\* a v1.0 file: the same mapping pickled as a plain dict, from before
\* extra attributes existed
LegacyBlob(blob) ==
    IF blob.extra_attributes = <<>> THEN [blob EXCEPT !.has_extra_attributes = FALSE]
    ELSE blob

\* ordered_dims[index] = Dimension(d['name'], d['values'], d['structured'])
RECURSIVE Library_ordered_dims(_, _, _, _)
Library_ordered_dims(h, blob, i, acc) ==
    IF i > Len(blob.dim_ordering) THEN [err |-> "none", dims |-> acc, heap |-> h]
    ELSE IF i > Len(blob.dimensions) THEN [err |-> "IndexError", dims |-> acc, heap |-> h]
    ELSE LET t == Loc("tmp", IdxName(i))
             add(r) ==
                 IF r.err # "none" THEN [err |-> r.err, dims |-> acc, heap |-> h]
                 ELSE Library_ordered_dims(r.heap, blob, i + 1, Append(acc, r.obj))
             make(d) ==
                 add(Dimension__init__([h EXCEPT ![t] = d.values], d.name, t,
                                       d.structured, FALSE, Loc("fdim", IdxName(i))))
         IN  make(DictGet(blob.dimensions, blob.dim_ordering[i]))

\* for prop in instance_dict['properties']: self[prop] = ...
RECURSIVE Library_restore_props(_, _, _)
Library_restore_props(h, new, props) ==
    IF props = <<>> THEN [err |-> "none", lib |-> new, heap |-> h]
    ELSE LET t == Loc("tmp", Head(props).key)
             stored(r) ==
                 IF r.err # "none" THEN [err |-> r.err, lib |-> NoLib, heap |-> h]
                 ELSE Library_restore_props(r.heap, r.lib, Tail(props))
         IN  stored(Library__setitem__([h EXCEPT ![t] = Head(props).val], new,
                                       Head(props).key, t))

\* for p in ea: self.extra_attributes[p] = ea[p]
RECURSIVE Library_restore_extra(_, _)
Library_restore_extra(ea, acc) ==
    IF ea = <<>> THEN acc
    ELSE Library_restore_extra(Tail(ea), DictSet(acc, Head(ea).key, Head(ea).val))

\* Library.__setstate__(instance_dict) on an unpickled blob
Library__setstate__(h, blob) ==
    LET ea == IF blob.has_extra_attributes THEN blob.extra_attributes ELSE <<>>
        fail(e) == [err |-> e, lib |-> NoLib, heap |-> h]
        restored(pr) ==
            IF pr.err # "none" THEN fail(pr.err)
            ELSE [err  |-> "none",
                  lib  |-> [pr.lib EXCEPT !.extra_attributes =
                                Library_restore_extra(ea, pr.lib.extra_attributes)],
                  heap |-> pr.heap]
        built(nl) ==
            IF nl.err # "none" THEN fail(nl.err)
            ELSE restored(Library_restore_props(nl.heap, nl.lib, blob.properties))
        ordered(od) ==
            IF od.err # "none" THEN fail(od.err)
            ELSE IF Len(od.dims) < Len(blob.dimensions) THEN fail("AttributeError")
            ELSE built(Library__init__(od.heap, od.dims, ResRegion))
    IN  ordered(Library_ordered_dims(h, blob, 1, <<>>))

\* Library.load_from_file on a file holding blob; legacy: blob is a plain dict
Library_load_from_file(h, blob, legacy) ==
    LET onto(empty) ==
            IF empty.err # "none" THEN [err |-> empty.err, lib |-> NoLib, heap |-> h]
            ELSE Library__setstate__(empty.heap, blob)
    IN  IF legacy THEN onto(Library__init__(h, <<>>, ResRegion))
        ELSE Library__setstate__(h, blob)

\* ---------------------------------------------------------------- text directory
\* A directory: whether it exists, and its files as a mapping from file name
\* to content.  A file name is the sequence of the pieces it is put together
\* from; a content has the lines of names, the numbers or the attributes
\* written to it.
NoDirectory == [exists |-> FALSE, files |-> <<>>]

NoContent == [names |-> <<>>, numbers |-> <<>>, attributes |-> <<>>]

\* the characters of a name; a name without space or underscore is one piece
Chars(name) ==
    CASE name = "a b" -> <<"a", " ", "b">>
      [] name = "a_b" -> <<"a", "_", "b">>
      [] OTHER -> <<name>>

\* str.replace(old, new) on the characters of a string
Replace(chars, old, new) ==
    [i \in 1..Len(chars) |-> IF chars[i] = old THEN new ELSE chars[i]]

\* f'{bd_prefix}_{name}.txt'
BulkFileName(chars) == <<"bulkdata", "_">> \o chars \o <<".txt">>

\* the position in C order, from 0, of the f-th cell in Fortran order
RECURSIVE FOffset(_, _)
FOffset(shape, f) ==
    IF shape = <<>> THEN 0
    ELSE (f % Head(shape)) * Prod(Tail(shape)) + FOffset(Tail(shape), f \div Head(shape))

\* a.ravel(order=order)
Ravel(a, order) ==
    IF order = "C" THEN a.data
    ELSE [f \in 1..Size(a) |-> a.data[FOffset(a.shape, f - 1) + 1]]

\* prop_names_underscored[p]
Library_prop_name_underscored(p) == Replace(Chars(p), " ", "_")

\* the three metadata files
Library_write_metadata(lib, files) ==
    LET iv == DictSet(files, <<"metadata_independent_variables.txt">>,
                      [NoContent EXCEPT !.names =
                          [i \in 1..Len(Library_dims(lib)) |->
                              Chars(Library_dims(lib)[i].name)]])
        dv == DictSet(iv, <<"metadata_dependent_variables.txt">>,
                      [NoContent EXCEPT !.names =
                          [i \in 1..Len(Library_props(lib)) |->
                              Library_prop_name_underscored(Library_props(lib)[i])]])
    IN  DictSet(dv, <<"metadata_user_defined_attributes.txt">>,
                [NoContent EXCEPT !.attributes = lib.extra_attributes])

\* for d in self.dims: np.savetxt(bulkdata_<d.name>.txt, d.values)
RECURSIVE Library_write_dims(_, _, _)
Library_write_dims(h, dims, files) ==
    IF dims = <<>> THEN files
    ELSE Library_write_dims(h, Tail(dims),
             DictSet(files, BulkFileName(Chars(Head(dims).name)),
                     [NoContent EXCEPT !.numbers = h[Head(dims).values].data]))

\* for p in self.props: np.savetxt(bulkdata_<underscored p>.txt, self[p].ravel(order))
RECURSIVE Library_write_props(_, _, _, _)
Library_write_props(h, props, order, files) ==
    IF props = <<>> THEN files
    ELSE Library_write_props(h, Tail(props), order,
             DictSet(files, BulkFileName(Library_prop_name_underscored(Head(props).key)),
                     [NoContent EXCEPT !.numbers = Ravel(h[Head(props).val], order)]))

\* lib.save_to_text_directory(dir, order), answer what the user types when
\* asked: the directory afterwards
Library_save_to_text_directory(h, lib, dir, order, answer) ==
    LET proceed == IF dir.exists THEN answer ELSE "y"
    IN  IF proceed # "y" THEN dir
        ELSE [exists |-> TRUE,
              files  |-> Library_write_props(h, lib.props, order,
                             Library_write_dims(h, Library_dims(lib),
                                 Library_write_metadata(lib, <<>>)))]

\* ---------------------------------------------------------------- remove
\* for quantity in quantities: self._props.pop(quantity)
RECURSIVE Library_remove(_, _, _)
Library_remove(h, lib, quantities) ==
    IF quantities = <<>> THEN [err |-> "none", lib |-> lib, heap |-> h]
    ELSE IF ~DictHas(lib.props, Head(quantities))
    THEN [err |-> "KeyError", lib |-> lib, heap |-> h]
    ELSE Library_remove([h EXCEPT ![DictGet(lib.props, Head(quantities))] = NoArr],
                        [lib EXCEPT !.props = DictPop(lib.props, Head(quantities))],
                        Tail(quantities))

\* lib.dim(name)
Library_dim(lib, name) ==
    IF DictHas(lib.dims, name) THEN [err |-> "none", obj |-> DictGet(lib.dims, name)]
    ELSE [err |-> "KeyError", obj |-> NoDim]

\* ---------------------------------------------------------------- state
VARIABLES
    heap,    \* location -> array buffer
    cdims,   \* the Dimension objects the caller has built, in order
    lib,     \* the caller's Library, NoLib before it is constructed
    nmut,    \* the number of in-place writes and rebinds the caller has made
    res,     \* what the last copy, slice, squeeze or load returned; the caller
             \* keeps one result and drops it before asking for the next
    err,     \* the exception the last operation raised, or "none"
    op,      \* the last operation and its arguments
    output_directory    \* the directory the text dump is written to

vars == <<heap, cdims, lib, nmut, res, err, op, output_directory>>

IdxKeys == {IdxName(i) : i \in 1..MaxDims}
ValidDimNames == {NameList[j] : j \in 1..MaxDims}

Locs ==
    {Loc(k, n) : k \in {"craw", "cdim", "fdim"}, n \in IdxKeys}
    \cup {Loc("tmp", n) : n \in IdxKeys \cup PropNames}
    \cup {Loc("carr", "")}
    \cup {Loc(k, n) : k \in {"ldim", "rdim"}, n \in ValidDimNames}
    \cup {Loc(k, n) : k \in {"lprop", "rprop"}, n \in PropNames \cup TextPropNames}

CallerArray == Loc("carr", "")

NoOp ==
    [name |-> "init", idx |-> 0, key |-> "", names |-> <<>>, form |-> "",
     comps |-> <<>>, legacy |-> FALSE]

\* ---------------------------------------------------------------- input sets
\* (values, structured) of the Dimensions the caller builds: structured ones
\* of every length and one with a repeated value, unstructured ones of two
\* different lengths
DimInputs ==
    {[vals |-> Ramp(n, 0), structured |-> TRUE] : n \in 1..MaxPts}
    \cup {[vals |-> <<1, 1>>, structured |-> TRUE],
          [vals |-> <<1, 1>>, structured |-> FALSE],
          [vals |-> <<0>>, structured |-> FALSE]}

\* the shapes a caller gives an array meant for a grid of shape gs: the right
\* one, and two wrong ones (flattened, one axis too many)
ShapeInputs(gs) ==
    IF gs = <<>> THEN {<<1>>} ELSE {gs, <<Prod(gs)>>, Append(gs, 1)}

RemoveInputs ==
    {q \in UNION {[1..n -> PropNames] : n \in 1..Cardinality(PropNames)} :
        \A i, j \in 1..Len(q) : q[i] = q[j] => i = j}

CompInputs ==
    {IntIdx(0), IntIdx(MaxPts - 1), SliceIdx(0, -1, 1), SliceIdx(1, -1, 1)}

SpecInputs ==
    {[form |-> "tuple", comps |-> c] : c \in UNION {[1..n -> CompInputs] : n \in 1..MaxDims}}
    \cup {[form |-> "single", comps |-> <<c>>] : c \in CompInputs}

\* a.flat[0] = v on the buffer at loc
InPlaceSet(h, loc, v) == [h EXCEPT ![loc].data[1] = v]

\* the temporaries of an operation are gone when it returns
Temporaries == {"tmp", "fdim"}
\* the previous result is dropped when a new one is bound
ResultKinds == {"rdim", "rprop"}

Init ==
    /\ heap = [l \in Locs |-> NoArr]
    /\ cdims = <<>>
    /\ lib = NoLib
    /\ nmut = 0
    /\ res = NoRes
    /\ err = "none"
    /\ op = NoOp
    /\ output_directory = NoDirectory

\* d = Dimension(name, values, structured), by the caller
NewDimension(name, vals, structured) ==
    /\ ~lib.live
    /\ Len(cdims) < MaxDims
    /\ LET i   == Len(cdims) + 1
           raw == Loc("craw", IdxName(i))
           r   == Dimension__init__([heap EXCEPT ![raw] = [shape |-> <<Len(vals)>>,
                                                           data |-> vals]],
                                    name, raw, structured, FALSE,
                                    Loc("cdim", IdxName(i)))
       IN  /\ err' = r.err
           /\ heap' = IF r.err = "none" THEN r.heap ELSE heap
           /\ cdims' = IF r.err = "none" THEN Append(cdims, r.obj) ELSE cdims
    /\ op' = [NoOp EXCEPT !.name = "new_dimension", !.key = name]
    /\ UNCHANGED <<lib, nmut, res, output_directory>>

\* lib = Library(*cdims)
Construct ==
    /\ ~lib.live
    /\ LET r == Library__init__(heap, cdims, LibRegion)
       IN  /\ err' = r.err
           /\ heap' = r.heap
           /\ lib' = r.lib
    /\ op' = [NoOp EXCEPT !.name = "construct"]
    /\ UNCHANGED <<cdims, nmut, res, output_directory>>

\* lib[p] = values, values a fresh array of the caller
SetItem(p, shape, base) ==
    /\ lib.live
    /\ LET r == Library__setitem__([heap EXCEPT ![CallerArray] = Filled(shape, base)],
                                   lib, p, CallerArray)
       IN  /\ err' = r.err
           /\ heap' = IF r.err = "none" THEN r.heap ELSE heap
           /\ lib' = r.lib
    /\ op' = [NoOp EXCEPT !.name = "setitem", !.key = p, !.comps = shape]
    /\ UNCHANGED <<cdims, nmut, res, output_directory>>

\* lib.remove(*quantities)
Remove(quantities) ==
    /\ lib.live
    /\ LET r == Library_remove(heap, lib, quantities)
       IN  /\ err' = r.err
           /\ heap' = r.heap
           /\ lib' = r.lib
    /\ op' = [NoOp EXCEPT !.name = "remove", !.names = quantities]
    /\ UNCHANGED <<cdims, nmut, res, output_directory>>

\* lib.extra_attributes[k] = v
SetExtraAttribute(k, v) ==
    /\ lib.live
    /\ lib' = [lib EXCEPT !.extra_attributes = DictSet(lib.extra_attributes, k, v)]
    /\ err' = "none"
    /\ op' = [NoOp EXCEPT !.name = "set_extra", !.key = k]
    /\ UNCHANGED <<heap, cdims, nmut, res, output_directory>>

\* binds the outcome r = [err, lib, heap] of an operation that returns a Library
ReturnLibrary(r, origin) ==
    /\ err' = r.err
    /\ res' = IF r.err = "none" THEN [LibRes(r.lib) EXCEPT !.origin = origin] ELSE NoRes
    /\ heap' = Release(IF r.err = "none" THEN r.heap ELSE Release(heap, ResultKinds),
                       Temporaries)

\* res = lib[spec]
Slice(spec) ==
    /\ lib.live
    /\ ReturnLibrary(Library__getitem__(Release(heap, ResultKinds), lib, spec.form,
                                        spec.comps), "slice")
    /\ op' = [NoOp EXCEPT !.name = "slice", !.form = spec.form, !.comps = spec.comps]
    /\ UNCHANGED <<cdims, lib, nmut, output_directory>>

\* res = Library.copy(lib)
Copy ==
    /\ lib.live
    /\ ReturnLibrary(Library__copy__(Release(heap, ResultKinds), lib), "copy")
    /\ op' = [NoOp EXCEPT !.name = "copy"]
    /\ UNCHANGED <<cdims, lib, nmut, output_directory>>

\* res = Library.deepcopy(lib)
DeepCopy ==
    /\ lib.live
    /\ ReturnLibrary(Library__deepcopy__(Release(heap, ResultKinds), lib), "deepcopy")
    /\ op' = [NoOp EXCEPT !.name = "deepcopy"]
    /\ UNCHANGED <<cdims, lib, nmut, output_directory>>

\* res = Library.squeeze(lib)
SqueezeLibrary ==
    /\ lib.live
    /\ LET r == Library_squeeze(Release(heap, ResultKinds), lib)
       IN  /\ err' = r.err
           /\ res' = [r.res EXCEPT !.origin = IF r.err = "none" THEN "squeeze" ELSE ""]
           /\ heap' = Release(IF r.err = "none" THEN r.heap
                              ELSE Release(heap, ResultKinds), Temporaries)
    /\ op' = [NoOp EXCEPT !.name = "squeeze"]
    /\ UNCHANGED <<cdims, lib, nmut, output_directory>>

\* lib.save_to_file(f); res = Library.load_from_file(f), or the same state
\* written as a plain dict by v1.0 and loaded
SaveLoad(legacy) ==
    /\ lib.live
    /\ LET blob == Pickle(heap, Library__getstate__(lib))
       IN  ReturnLibrary(Library_load_from_file(Release(heap, ResultKinds),
                                                IF legacy THEN LegacyBlob(blob) ELSE blob,
                                                legacy), "load")
    /\ op' = [NoOp EXCEPT !.name = "load", !.legacy = legacy]
    /\ UNCHANGED <<cdims, lib, nmut, output_directory>>

\* cdims[i].grid = g, by the caller, on a Dimension it built itself
SetGridFree(i) ==
    /\ i \in 1..Len(cdims)
    /\ LET r == Dimension_grid_setter(cdims[i], CallerGrid)
       IN  /\ err' = r.err
           /\ cdims' = [cdims EXCEPT ![i] = r.obj]
    /\ op' = [NoOp EXCEPT !.name = "set_grid_free", !.idx = i]
    /\ UNCHANGED <<heap, lib, nmut, res, output_directory>>

\* lib.dim(name).grid = g, by the caller
SetGridBound(name) ==
    /\ lib.live
    /\ nmut < MaxMutations
    /\ nmut' = nmut + 1
    /\ LET d == Library_dim(lib, name)
           r == Dimension_grid_setter(d.obj, CallerGrid)
       IN  IF d.err # "none" THEN err' = d.err /\ lib' = lib
           ELSE /\ err' = r.err
                /\ lib' = [lib EXCEPT !.dims = DictSet(lib.dims, name, r.obj)]
    /\ op' = [NoOp EXCEPT !.name = "set_grid_bound", !.key = name]
    /\ UNCHANGED <<heap, cdims, res, output_directory>>

\* cdims[i].values.flat[0] = v
MutateCallerDimension(i, v) ==
    /\ i \in 1..Len(cdims)
    /\ nmut < MaxMutations
    /\ nmut' = nmut + 1
    /\ heap' = InPlaceSet(heap, cdims[i].values, v)
    /\ err' = "none"
    /\ op' = [NoOp EXCEPT !.name = "mutate_caller_dimension", !.idx = i]
    /\ UNCHANGED <<cdims, lib, res, output_directory>>

\* values.flat[0] = v on the array last given to lib[p] = values
MutateCallerArray(v) ==
    /\ heap[CallerArray] # NoArr
    /\ nmut < MaxMutations
    /\ nmut' = nmut + 1
    /\ heap' = InPlaceSet(heap, CallerArray, v)
    /\ err' = "none"
    /\ op' = [NoOp EXCEPT !.name = "mutate_caller_array"]
    /\ UNCHANGED <<cdims, lib, res, output_directory>>

\* lib[p].flat[0] = v
MutateProperty(p, v) ==
    /\ lib.live
    /\ nmut < MaxMutations
    /\ nmut' = nmut + 1
    /\ LET r == Library_get_property(lib, p)
       IN  /\ err' = r.err
           /\ heap' = IF r.err = "none" THEN InPlaceSet(heap, r.loc, v) ELSE heap
    /\ op' = [NoOp EXCEPT !.name = "mutate_property", !.key = p]
    /\ UNCHANGED <<cdims, lib, res, output_directory>>

\* res.dim(name).values.flat[0] = v
MutateResultDimension(name, v) ==
    /\ res.kind = "library"
    /\ nmut < MaxMutations
    /\ nmut' = nmut + 1
    /\ LET d == Library_dim(res.lib, name)
       IN  /\ err' = d.err
           /\ heap' = IF d.err = "none" THEN InPlaceSet(heap, d.obj.values, v) ELSE heap
    /\ op' = [NoOp EXCEPT !.name = "mutate_result_dimension", !.key = name]
    /\ UNCHANGED <<cdims, lib, res, output_directory>>

\* res[p].flat[0] = v
MutateResultProperty(p, v) ==
    /\ res.kind = "library"
    /\ nmut < MaxMutations
    /\ nmut' = nmut + 1
    /\ LET r == Library_get_property(res.lib, p)
       IN  /\ err' = r.err
           /\ heap' = IF r.err = "none" THEN InPlaceSet(heap, r.loc, v) ELSE heap
    /\ op' = [NoOp EXCEPT !.name = "mutate_result_property", !.key = p]
    /\ UNCHANGED <<cdims, lib, res, output_directory>>

\* lib.save_to_text_directory(output_directory, order); the user answers the
\* prompt, which comes only when the directory exists
SaveToTextDirectory(order, answer) ==
    /\ lib.live
    /\ output_directory' =
          Library_save_to_text_directory(heap, lib, output_directory, order, answer)
    /\ err' = "none"
    /\ op' = [NoOp EXCEPT !.name = "save_text", !.form = order,
                          !.key = IF output_directory.exists THEN answer ELSE ""]
    /\ UNCHANGED <<heap, cdims, lib, nmut, res>>

\* lib = res: the caller goes on with the Library an operation returned.  The
\* objects are the same; the model names their buffers as those of lib.
Rebound(l) ==
    [l EXCEPT !.region = LibRegion,
              !.dims = [i \in 1..Len(l.dims) |->
                           [l.dims[i] EXCEPT !.val.values = Loc(LibRegion.dim, @.n)]],
              !.props = [i \in 1..Len(l.props) |->
                           [l.props[i] EXCEPT !.val = Loc(LibRegion.prop, @.n)]]]

Rebind ==
    /\ res.kind = "library"
    /\ nmut < MaxMutations
    /\ nmut' = nmut + 1
    /\ lib' = Rebound(res.lib)
    /\ heap' = [l \in DOMAIN heap |->
                  IF l.k = LibRegion.dim THEN heap[Loc(ResRegion.dim, l.n)]
                  ELSE IF l.k = LibRegion.prop THEN heap[Loc(ResRegion.prop, l.n)]
                  ELSE IF l.k \in ResultKinds THEN NoArr
                  ELSE heap[l]]
    /\ res' = NoRes
    /\ err' = "none"
    /\ op' = [NoOp EXCEPT !.name = "rebind"]
    /\ UNCHANGED <<cdims, output_directory>>

\* the caller builds Dimensions and then a Library from them
Build ==
    \/ \E name \in DimNames(Len(cdims) + 1), d \in DimInputs :
          NewDimension(name, d.vals, d.structured)
    \/ Construct

\* a caller that builds a Library and tries to set grids
Next ==
    \/ Build
    \/ \E i \in 1..MaxDims : SetGridFree(i)
    \/ \E name \in ValidDimNames : SetGridBound(name)

Spec == Init /\ [][Next]_vars

\* a caller that fills and edits one Library, and writes into the arrays it
\* gave to it and got from it
NextProps ==
    \/ Build
    \/ \E p \in PropNames, shape \in ShapeInputs(lib.grid_shape), base \in FillBases :
          SetItem(p, shape, base)
    \/ \E quantities \in RemoveInputs : Remove(quantities)
    \/ \E i \in 1..MaxDims, v \in MutValues :
          lib.live /\ MutateCallerDimension(i, v)
    \/ \E v \in MutValues : MutateCallerArray(v)
    \/ \E p \in PropNames, v \in MutValues : MutateProperty(p, v)

SpecProps == Init /\ [][NextProps]_vars

\* a caller that fills a Library and then derives other Libraries from it
NextDerived ==
    \/ Build
    \/ \E p \in PropNames, shape \in ShapeInputs(lib.grid_shape), base \in FillBases :
          res.kind = "none" /\ SetItem(p, shape, base)
    \/ \E k \in AttrKeys, v \in AttrVals :
          res.kind = "none" /\ SetExtraAttribute(k, v)
    \/ \E spec \in SpecInputs : Slice(spec)
    \/ Copy
    \/ DeepCopy
    \/ SqueezeLibrary
    \/ \E legacy \in BOOLEAN : SaveLoad(legacy)
    \/ \E name \in ValidDimNames, v \in MutValues : MutateResultDimension(name, v)
    \/ \E p \in PropNames, v \in MutValues : MutateResultProperty(p, v)

SpecDerived == Init /\ [][NextDerived]_vars

\* a caller that fills a Library, derives Libraries from it and goes on with
\* what it got, so that every operation meets the results of every other
NextShapes ==
    \/ Build
    \/ \E p \in PropNames, shape \in ShapeInputs(lib.grid_shape), base \in FillBases :
          res.kind = "none" /\ SetItem(p, shape, base)
    \/ \E quantities \in RemoveInputs :
          res.kind = "none" /\ Remove(quantities)
    \/ \E spec \in SpecInputs : Slice(spec)
    \/ Copy
    \/ DeepCopy
    \/ SqueezeLibrary
    \/ \E legacy \in BOOLEAN : SaveLoad(legacy)
    \/ Rebind

SpecShapes == Init /\ [][NextShapes]_vars

\* a caller that fills a Library, dumps it to the text directory, edits it
\* and dumps it again
NextText ==
    \/ Build
    \/ \E p \in TextPropNames : SetItem(p, lib.grid_shape, TextBase(p))
    \/ \E p \in TextPropNames : Remove(<<p>>)
    \/ \E k \in AttrKeys, v \in AttrVals : SetExtraAttribute(k, v)
    \/ \E order \in RavelOrders, answer \in Answers : SaveToTextDirectory(order, answer)

SpecText == Init /\ [][NextText]_vars

\* ================================================================ claims
\* what the claims read off a Library
DimNamesOf(l) == [i \in 1..Len(l.dims_ordering) |-> Library_dims(l)[i].name]
DimValuesOf(h, l) == [i \in 1..Len(l.dims_ordering) |-> h[Library_dims(l)[i].values]]
DimFlagsOf(l) == [i \in 1..Len(l.dims_ordering) |-> Library_dims(l)[i].structured]
DimGridsOf(h, l) == [i \in 1..Len(l.dims) |-> Dimension_grid(h, l.dims[i].val)]
PropArraysOf(h, l) ==
    [i \in 1..Len(l.props) |-> [key |-> l.props[i].key, val |-> h[l.props[i].val]]]

AllStructured(ds) == \A i \in 1..Len(ds) : ds[i].structured
AllUnstructured(ds) == \A i \in 1..Len(ds) : ~ds[i].structured
DistinctNames(ds) == \A i, j \in 1..Len(ds) : ds[i].name = ds[j].name => i = j
NoDuplicateValues(h, ds) ==
    \A i \in 1..Len(ds) : UniqueSize(h[ds[i].values]) = Size(h[ds[i].values])
LengthsOf(h, ds) == [i \in 1..Len(ds) |-> Size(h[ds[i].values])]

C6_RejectedAssignmentChangesNothing ==
    [][(/\ op'.name = "setitem"
        /\ lib.has_grid_shape
        /\ op'.comps # lib.grid_shape)
       => /\ err' = "ValueError"
          /\ lib'.props = lib.props
          /\ PropArraysOf(heap', lib') = PropArraysOf(heap, lib)]_vars

\* an assignment was rejected while a property of that name was stored
C6_Witness ==
    /\ op.name = "setitem"
    /\ err = "ValueError"
    /\ op.comps # lib.grid_shape
    /\ DictHas(lib.props, op.key)

\* the names of a remove call as a set
RemovedSet(names) == {names[i] : i \in 1..Len(names)}

\* C7: remove(names...) is atomic: with a name that is not stored it fails with
\* a lookup error and removes nothing; with all names stored it removes exactly
\* those and leaves the others unchanged.
C7_RemoveIsAtomic ==
    [][(op'.name = "remove")
       => IF \A n \in RemovedSet(op'.names) : DictHas(lib.props, n)
          THEN /\ err' = "none"
               /\ RemovedSet(DictKeys(lib'.props)) =
                      RemovedSet(DictKeys(lib.props)) \ RemovedSet(op'.names)
               /\ \A i \in 1..Len(lib'.props) :
                      heap'[lib'.props[i].val] = heap[DictGet(lib.props, lib'.props[i].key)]
          ELSE /\ err' = "KeyError"
               /\ lib'.props = lib.props
               /\ PropArraysOf(heap', lib') = PropArraysOf(heap, lib)]_vars

\* C8: a Library of Dimensions that are all unstructured is built exactly when
\* all their values have the same flat length, with that one-dimensional grid
\* shape; with different lengths the construction fails with ValueError.
C8_UnstructuredConstruction ==
    (/\ op.name = "construct"
     /\ cdims # <<>>
     /\ AllUnstructured(cdims))
    => IF \A i \in 1..Len(cdims) : LengthsOf(heap, cdims)[i] = LengthsOf(heap, cdims)[1]
       THEN /\ err = "none"
            /\ lib.live
            /\ lib.grid_shape = <<LengthsOf(heap, cdims)[1]>>
       ELSE /\ err = "ValueError"
            /\ ~lib.live

\* C9: on a free Dimension every attempt to set grid fails and leaves grid
\* equal to values; on a Dimension bound into a Library the grid is the one the
\* Library set during construction, and no later set by a caller changes it.
C9_GridLifecycle ==
    [][/\ (op'.name = "set_grid_free")
          => /\ err' # "none"
             /\ Dimension_grid(heap', cdims'[op'.idx]) = heap'[cdims'[op'.idx].values]
       /\ (op'.name = "construct" /\ err' = "none")
          => \A i \in 1..Len(lib'.dims) :
                /\ lib'.dims[i].val.has_grid
                /\ lib'.dims[i].val.grid.shape = lib'.grid_shape
       /\ (op'.name = "set_grid_bound")
          => DimGridsOf(heap', lib') = DimGridsOf(heap, lib)]_vars

\* C10: a Library holds private copies of its inputs: writing into the values
\* of a Dimension given to the constructor does not change the Library's
\* dimension values, and writing into the array given to lib[name] = array does
\* not change the stored property; but the array lib[name] returns is the
\* stored one, so a write into it shows in what lib[name] returns afterwards.
C10_PrivateCopiesLiveReads ==
    [][/\ (op'.name = "mutate_caller_dimension")
          => /\ DimValuesOf(heap', lib') = DimValuesOf(heap, lib)
             /\ DimGridsOf(heap', lib') = DimGridsOf(heap, lib)
       /\ (op'.name = "mutate_caller_array")
          => PropArraysOf(heap', lib') = PropArraysOf(heap, lib)
       /\ (op'.name = "mutate_property" /\ err' = "none")
          => heap'[Library_get_property(lib', op'.key).loc].data[1] \in MutValues]_vars

\* the caller wrote into the values of a Dimension it had built a Library
\* from, and the Library's copy differs from the caller's array
C10_Witness ==
    /\ op.name = "mutate_caller_dimension"
    /\ lib.live
    /\ lib.dims # <<>>
    /\ heap[cdims[op.idx].values].data[1] \in MutValues
    /\ heap[DictGet(lib.dims, cdims[op.idx].name).values].data[1] \notin MutValues

\* ---------------------------------------------------------------- derived libraries
KeySet(d) == {d[i].key : i \in 1..Len(d)}

SameMapping(d, e) ==
    /\ KeySet(d) = KeySet(e)
    /\ \A k \in KeySet(d) : DictGet(d, k) = DictGet(e, k)

\* b, read through heap h, is a Library equivalent to a: the same dimension
\* names in the same order with the same values and structured flags, the same
\* properties and the same extra attributes
Equivalent(h, a, b) ==
    /\ DimNamesOf(b) = DimNamesOf(a)
    /\ DimValuesOf(h, b) = DimValuesOf(h, a)
    /\ DimFlagsOf(b) = DimFlagsOf(a)
    /\ SameMapping(PropArraysOf(h, b), PropArraysOf(h, a))
    /\ SameMapping(b.extra_attributes, a.extra_attributes)

\* C2: saving a Library and loading it back yields an equivalent Library, also
\* when the file holds a legacy plain mapping instead of a pickled Library.
C2_SaveLoadRoundTrip ==
    (op.name = "load")
    => /\ err = "none"
       /\ res.kind = "library"
       /\ Equivalent(heap, lib, res.lib)

\* C3: Library.deepcopy(lib) equals lib in dimensions, properties and extra
\* attributes, and shares no storage with it: writing into the copy's dimension
\* values or property arrays afterwards does not change the source's.
C3_DeepCopyEqualAndDisjoint ==
    [][/\ (op'.name = "deepcopy")
          => /\ err' = "none"
             /\ res'.kind = "library"
             /\ Equivalent(heap', lib', res'.lib)
       /\ (/\ op'.name \in {"mutate_result_dimension", "mutate_result_property"}
           /\ res.origin = "deepcopy")
          => /\ DimValuesOf(heap', lib') = DimValuesOf(heap, lib)
             /\ PropArraysOf(heap', lib') = PropArraysOf(heap, lib)]_vars

\* component c selects at least one point of an axis of length n
SelectsSomething(c, n) ==
    IF c.kind = "int" THEN c.start < n ELSE AxisIndices(c, n) # <<>>

\* C4: for a structured Library of n >= 1 dimensions and a spec of exactly n
\* components, each an integer index or a slice selecting at least one point,
\* lib[spec] is a new Library with n dimensions, also for n = 1 and a single
\* integer index.
C4_SlicingKeepsDimensionCount ==
    (/\ op.name = "slice"
     /\ lib.structured
     /\ Len(lib.dims_ordering) >= 1
     /\ Len(op.comps) = Len(lib.dims_ordering)
     /\ \A i \in 1..Len(op.comps) :
           SelectsSomething(op.comps[i], Size(heap[Library_dims(lib)[i].values])))
    => /\ err = "none"
       /\ res.kind = "library"
       /\ Len(Library_dims(res.lib)) = Len(lib.dims_ordering)

\* the 0-d array np.squeeze makes of a one-element array
Scalar(a) == [shape |-> <<>>, data |-> a.data]

\* C5: Library.squeeze of a Library whose dimensions all have length 1 returns
\* a record of two mappings: 'dimensions' sends each dimension name to that
\* dimension's scalar value, 'properties' each property name to its scalar.
C5_SqueezeToScalars ==
    (/\ op.name = "squeeze"
     /\ Len(lib.dims_ordering) >= 1
     /\ \A i \in 1..Len(lib.dims_ordering) : Size(heap[Library_dims(lib)[i].values]) = 1)
    => /\ err = "none"
       /\ res.kind = "dict"
       /\ KeySet(res.dimensions) = KeySet(lib.dims)
       /\ \A n \in KeySet(lib.dims) :
             DictGet(res.dimensions, n) = Scalar(heap[DictGet(lib.dims, n).values])
       /\ KeySet(res.properties) = KeySet(lib.props)
       /\ \A p \in KeySet(lib.props) :
             DictGet(res.properties, p) = Scalar(heap[DictGet(lib.props, p)])

\* ---------------------------------------------------------------- unique names
\* C11: in every Library the constructor builds, also from an argument list
\* that names a dimension twice, the names of Library.dims are pairwise
\* distinct and Library.dims has as many entries as Library.shape has axes.
C11_DimensionNamesUnique ==
    (/\ op.name = "construct"
     /\ err = "none"
     /\ cdims # <<>>)
    => /\ DistinctNames(Library_dims(lib))
       /\ Len(Library_dims(lib)) = Len(Library_shape(heap, lib))

\* ---------------------------------------------------------------- property shapes
\* every property array of l, read through h, has the grid shape of l
PropsMatchGrid(h, l) ==
    \A i \in 1..Len(l.props) : h[l.props[i].val].shape = l.grid_shape

\* the number of points each component of a slice spec selects
SelectedLens(h, l, comps) ==
    [i \in 1..Len(comps) |->
        Len(AxisIndices(comps[i], Size(h[Library_dims(l)[i].values])))]

\* the lengths of the dimensions of l that have more than one point
RemainingLens(h, l) ==
    SelectSeq(LengthsOf(h, Library_dims(l)), LAMBDA n : n > 1)

\* C12: in every Library reached by construction, property assignment, remove,
\* slicing, squeeze, copy, deep copy and save/load, in any order, each stored
\* property array has the Library's grid shape; the properties of a sliced
\* Library have the sliced grid shape, those of a squeezed Library the shape
\* of the dimensions that remain.
C12_PropertiesHaveGridShape ==
    /\ lib.live => PropsMatchGrid(heap, lib)
    /\ (res.kind = "library") => PropsMatchGrid(heap, res.lib)
    /\ (op.name = "slice" /\ res.kind = "library")
       => \A i \in 1..Len(res.lib.props) :
             heap[res.lib.props[i].val].shape = SelectedLens(heap, lib, op.comps)
    /\ (op.name = "squeeze" /\ res.kind = "library")
       => \A i \in 1..Len(res.lib.props) :
             heap[res.lib.props[i].val].shape = RemainingLens(heap, lib)

\* ---------------------------------------------------------------- text directory
\* the bulk data files of a directory
BulkFiles(dir) ==
    {i \in 1..Len(dir.files) : dir.files[i].key[1] = "bulkdata"}

\* the directory holds a bulk data file of that name with those numbers
HoldsNumbers(dir, chars, numbers) ==
    /\ DictHas(dir.files, BulkFileName(chars))
    /\ DictGet(dir.files, BulkFileName(chars)).numbers = numbers

\* C13: when save_to_text_directory completes, the directory holds one
\* bulkdata_<name>.txt per dimension with that dimension's values and one per
\* property (spaces in its name written as underscores) with that property's
\* flattened values, for every dimension and property, whatever their names;
\* when the directory exists and the answer is not 'y', the directory is left
\* as it was.
C13_TextDirectoryHoldsEveryArray ==
    [][(op'.name = "save_text")
       => IF output_directory.exists /\ op'.key # "y"
          THEN output_directory' = output_directory
          ELSE /\ output_directory'.exists
               /\ \A i \in 1..Len(Library_dims(lib)) :
                     HoldsNumbers(output_directory', Chars(Library_dims(lib)[i].name),
                                  heap[Library_dims(lib)[i].values].data)
               /\ \A i \in 1..Len(lib.props) :
                     HoldsNumbers(output_directory',
                                  Replace(Chars(lib.props[i].key), " ", "_"),
                                  Ravel(heap[lib.props[i].val], op'.form))
               /\ Cardinality(BulkFiles(output_directory')) =
                      Len(Library_dims(lib)) + Len(lib.props)]_vars

====
